---- MODULE Spec2Model ----
(***************************************************************************)
(* A model of cartographer-cli: the tiled elevation raster (region.rs),    *)
(* the terrain tile mesher (elevation.rs), the tile scheduler              *)
(* (Region::process_elevation), the way branches of read_osm with the      *)
(* Buffer they write (main.rs), and the Elevation Cache of the server      *)
(* mode, which only the specification describes.                           *)
(*                                                                         *)
(* Scaling.  The raster of the program is 10012 x 10012 samples cut into   *)
(* 20 x 20 chunks of 512 x 512 (the chunks of the last column are 284      *)
(* wide, those of the last row 284 high).  The model keeps that shape with *)
(* ChunkCount chunks per row of ChunkSize samples and a trailing chunk of  *)
(* EdgeSize < ChunkSize samples.  Floating point values are modelled by    *)
(* exact integers / rationals; the float special values NaN and Inf are    *)
(* modelled explicitly where the code can produce them.                    *)
(***************************************************************************)
EXTENDS Integers, Sequences, FiniteSets, TLC

\* ------------------------------------------------------------------ bounds
\* chunk_size (512 in the program)
ChunkSize == 3
\* chunk_count (20 in the program)
ChunkCount == 3
\* size of the trailing chunk (10012 - 19*512 = 284 in the program)
EdgeSize == 2
\* upper bound of available_parallelism()
MaxWorkers == 2
\* the most nodes and the most ways of an OSM file
MaxNodes == 3
MaxWays == 1
\* the capacity of the Elevation Cache (11 entries in the specification)
CacheCapacity == 2
\* the number of chunks one request asks of its cache
MaxQueries == 5

REGION_SIZE == (ChunkCount - 1) * ChunkSize + EdgeSize
NumTiles == ChunkCount * ChunkCount
TileIds == 0 .. (NumTiles - 1)
Workers == 1 .. MaxWorkers

\* Option::None, and the outcome of an expression that panics
None == -1
Panic == -2

Min(a, b) == IF a < b THEN a ELSE b
Max(a, b) == IF a > b THEN a ELSE b

VARIABLES
  \* Region
  tiles,
  \* process_elevation: the caller
  mainpc, thread_count, spawned, joinIdx,
  \* process_elevation: Arc<Mutex<VecDeque<job>>>
  queue, lockHolder, poisoned,
  \* process_elevation: the worker threads
  wpc, wjob, wbuf,
  \* the output directory and the bookkeeping of what happened to each job
  files, popCount, meshCount, saveCount,
  \* one call of build_terrain_mesh, step by step
  mpc, mjob, mgrid, mverts, mnormal, mvcount, mfcount, mbuf,
  \* the last call of get_elevation: its arguments and what it returned
  qx, qy, qres,
  \* read_osm: the node map and the buffer
  onodes, obuf,
  \* read_osm: the way read last, the number of ways read, and Buffer.bytes
  oway, oways, obytes,
  \* the Elevation Cache of one request, and the chunk indices asked of it
  cache, chist

elevVars == <<qx, qy, qres>>
osmVars == <<onodes, obuf, oway, oways, obytes>>
cacheVars == <<cache, chist>>
meshVars == <<mpc, mjob, mgrid, mverts, mnormal, mvcount, mfcount, mbuf>>
schedVars == <<mainpc, thread_count, spawned, joinIdx, queue, lockHolder, poisoned,
               wpc, wjob, wbuf, files, popCount, meshCount, saveCount>>
\* what the scheduler's steps leave alone, beside the tiles
nonSchedVars == <<meshVars, elevVars, osmVars, cacheVars>>
vars == <<tiles, schedVars, meshVars, elevVars, osmVars, cacheVars>>

\* ------------------------------------------------------------------ Region
\* The elevation raster the decoder reads: every sample is different, so that
\* a sample read from the wrong place is seen.
RampRaster == [p \in (0 .. REGION_SIZE - 1) \X (0 .. REGION_SIZE - 1) |-> p[2] * REGION_SIZE + p[1]]

\* tiff.chunk_data_dimensions(i) of a REGION_SIZE^2 raster in ChunkSize^2 chunks
ChunkWidth(i) == Min(ChunkSize, REGION_SIZE - (i % ChunkCount) * ChunkSize)
ChunkHeight(i) == Min(ChunkSize, REGION_SIZE - (i \div ChunkCount) * ChunkSize)

\* tiff.read_chunk(i): the chunk's samples, row-major
ReadChunk(raster, i) ==
  LET w == ChunkWidth(i)
      h == ChunkHeight(i)
  IN [k \in 1 .. (w * h) |->
        raster[<<(i % ChunkCount) * ChunkSize + ((k - 1) % w),
                 (i \div ChunkCount) * ChunkSize + ((k - 1) \div w)>>]]

\* Region::new: the tiles of the region
LoadTiles(raster) ==
  [i \in TileIds |-> [data |-> ReadChunk(raster, i), width |-> ChunkWidth(i), height |-> ChunkHeight(i)]]

\* Tile::get: data[y * width + x], a panic when the index is out of bounds
TileGet(tile, x, y) ==
  LET idx == y * tile.width + x
  IN IF idx >= 0 /\ idx < Len(tile.data) THEN tile.data[idx + 1] ELSE Panic

\* self.tiles[i].clone(): a shared reference to tile i, a panic when i is out of bounds
TileRef(ts, i) == IF i \in DOMAIN ts THEN i ELSE Panic

\* a row stride off by one
RowStrideOff == ChunkCount - 1

\* the stride of one grid row in the tile vector (index + 20)
RowStride == ChunkCount

\* the TileNeighbors of process_elevation's job `index`
Neighbors(ts, index) ==
  [next_x |-> IF ts[index].width = ChunkSize THEN TileRef(ts, index + 1) ELSE None,
   next_y |-> IF ts[index].height = ChunkSize THEN TileRef(ts, index + RowStride) ELSE None,
   corner |-> IF ts[index].width = ChunkSize /\ ts[index].height = ChunkSize
              THEN TileRef(ts, index + RowStride + 1) ELSE None]

\* one (index, tile, neighbors) job
Job(ts, index) == [index |-> index, tile |-> TileRef(ts, index), neighbors |-> Neighbors(ts, index)]

\* no job: the locals of the worker's loop body are out of scope
NoJob == [index |-> None, tile |-> None, neighbors |-> None]

\* the VecDeque process_elevation collects, in tile order
JobQueue(ts) == [k \in 1 .. NumTiles |-> Job(ts, k - 1)]

\* indexing out of bounds while the queue is built panics the caller
QueuePanics(ts) ==
  \E k \in 1 .. NumTiles :
    LET n == JobQueue(ts)[k].neighbors
    IN n.next_x = Panic \/ n.next_y = Panic \/ n.corner = Panic

\* --------------------------------------------------------- elevation.rs
\* fixed_width / fixed_height: a dimension of exactly one chunk is extended by one sample
FixedDim(d) == IF d = ChunkSize THEN d + 1 ELSE d

\* neighbors.<field>.as_ref().unwrap().get(x, y): a panic when the neighbor is absent
NeighborGet(ts, ref, x, y) == IF ref \in DOMAIN ts THEN TileGet(ts[ref], x, y) ELSE Panic

\* the grid closure with the neighbor's row and column exchanged
VertexHeightSwapped(ts, data, width, height, nb, x, y) ==
  IF x >= width /\ y >= width THEN NeighborGet(ts, nb.corner, 0, 0)
  ELSE IF x >= width THEN NeighborGet(ts, nb.next_x, y, 0)
  ELSE IF y >= height THEN NeighborGet(ts, nb.next_y, 0, x)
  ELSE IF y * width + x < Len(data) THEN data[y * width + x + 1] ELSE Panic

\* the closure build_terrain_mesh hands to make_grid: the height of grid point (x, y)
VertexHeight(ts, data, width, height, nb, x, y) ==
  IF x >= width /\ y >= width THEN NeighborGet(ts, nb.corner, 0, 0)
  ELSE IF x >= width THEN NeighborGet(ts, nb.next_x, 0, y)
  ELSE IF y >= height THEN NeighborGet(ts, nb.next_y, x, 0)
  ELSE IF y * width + x < Len(data) THEN data[y * width + x + 1] ELSE Panic

\* make_grid over the effective grid: the height of every vertex
MakeGrid(ts, data, width, height, nb) ==
  [p \in (0 .. FixedDim(width) - 1) \X (0 .. FixedDim(height) - 1) |->
     VertexHeight(ts, data, width, height, nb, p[1], p[2])]

\* the grid build_terrain_mesh makes for job `job`
JobGrid(ts, job) ==
  MakeGrid(ts, ts[job.tile].data, ts[job.tile].width, ts[job.tile].height, job.neighbors)

\* build_terrain_mesh panics before decimating: a tile sized wrongly (lines 32-34),
\* an absent neighbor unwrapped or an index out of bounds in the grid closure
GridPanics(ts, job) ==
  \/ Len(ts[job.tile].data) # ts[job.tile].width * ts[job.tile].height
  \/ \E p \in DOMAIN JobGrid(ts, job) : JobGrid(ts, job)[p] = Panic

\* The buffer build_terrain_mesh returns for a job, abstracted in the scheduler to the
\* heights of the four corner vertices of its grid (boundary vertices survive the
\* decimation, keep_boundary(true), and are encoded into the buffer).
JobBuffer(ts, job) ==
  LET g == JobGrid(ts, job)
      mx == FixedDim(ts[job.tile].width) - 1
      my == FixedDim(ts[job.tile].height) - 1
  IN <<g[<<0, 0>>], g[<<mx, 0>>], g[<<0, my>>], g[<<mx, my>>]>>

\* ------------------------------------------------- Region::process_elevation
\* a thread panics: a lock it holds is poisoned and released
PanicWorker(w) ==
  /\ wpc' = [wpc EXCEPT ![w] = "panicked"]
  /\ poisoned' = (poisoned \/ lockHolder = w)
  /\ lockHolder' = IF lockHolder = w THEN None ELSE lockHolder

\* the queue is collected from the tiles (lines 91-101)
Seed ==
  /\ mainpc = "start"
  /\ IF QueuePanics(tiles)
     THEN mainpc' = "panicked" /\ queue' = queue
     ELSE mainpc' = "spawn" /\ queue' = JobQueue(tiles)
  /\ UNCHANGED <<nonSchedVars, tiles, thread_count, spawned, joinIdx, lockHolder, poisoned,
                 wpc, wjob, wbuf, files, popCount, meshCount, saveCount>>

\* std::thread::spawn of the next worker (lines 105-124)
SpawnWorker ==
  /\ mainpc = "spawn"
  /\ spawned' = spawned + 1
  /\ wpc' = [wpc EXCEPT ![spawned + 1] = "lock"]
  /\ mainpc' = IF spawned + 1 = thread_count THEN "join" ELSE "spawn"
  /\ UNCHANGED <<nonSchedVars, tiles, thread_count, joinIdx, queue, lockHolder, poisoned,
                 wjob, wbuf, files, popCount, meshCount, saveCount>>

\* queue.lock().unwrap() (line 111): blocks while another thread holds the mutex,
\* panics when the mutex is poisoned
LockQueue(w) ==
  /\ wpc[w] = "lock"
  /\ lockHolder = None
  /\ IF poisoned
     THEN PanicWorker(w)
     ELSE lockHolder' = w /\ wpc' = [wpc EXCEPT ![w] = "pop"] /\ UNCHANGED poisoned
  /\ UNCHANGED <<nonSchedVars, tiles, mainpc, thread_count, spawned, joinIdx, queue,
                 wjob, wbuf, files, popCount, meshCount, saveCount>>

\* a pop that leaves the job in the queue (front() in place of pop_front())
PopRestPeek(q) == q

\* queue.pop_front() (line 112): the rest of the queue after the pop
PopRest(q) == Tail(q)

\* a pop whose guard lives on while the job is worked on (as in
\* `while let Some(item) = queue.lock().unwrap().pop_front()`)
PopFrontHoldingGuard(w) ==
  /\ wpc[w] = "pop"
  /\ lockHolder = w
  /\ IF queue = <<>>
     THEN /\ wpc' = [wpc EXCEPT ![w] = "exited"]
          /\ lockHolder' = None
          /\ UNCHANGED <<queue, wjob, popCount>>
     ELSE /\ wpc' = [wpc EXCEPT ![w] = "mesh"]
          /\ wjob' = [wjob EXCEPT ![w] = Head(queue)]
          /\ queue' = PopRest(queue)
          /\ popCount' = [popCount EXCEPT ![Head(queue).index] = @ + 1]
          /\ UNCHANGED lockHolder
  /\ UNCHANGED <<nonSchedVars, tiles, mainpc, thread_count, spawned, joinIdx, poisoned,
                 wbuf, files, meshCount, saveCount>>

\* queue.pop_front(), the guard dropped, and the let-else on the item (lines 112-116)
PopFront(w) ==
  /\ wpc[w] = "pop"
  /\ lockHolder = w
  /\ lockHolder' = None
  /\ IF queue = <<>>
     THEN /\ wpc' = [wpc EXCEPT ![w] = "exited"]
          /\ UNCHANGED <<queue, wjob, popCount>>
     ELSE /\ wpc' = [wpc EXCEPT ![w] = "mesh"]
          /\ wjob' = [wjob EXCEPT ![w] = Head(queue)]
          /\ queue' = PopRest(queue)
          /\ popCount' = [popCount EXCEPT ![Head(queue).index] = @ + 1]
  /\ UNCHANGED <<nonSchedVars, tiles, mainpc, thread_count, spawned, joinIdx, poisoned,
                 wbuf, files, meshCount, saveCount>>

\* build_terrain_mesh returns the buffer of the job (line 117)
Mesh(w) ==
  /\ wpc[w] = "mesh"
  /\ IF GridPanics(tiles, wjob[w])
     THEN PanicWorker(w) /\ UNCHANGED <<wbuf, meshCount>>
     ELSE /\ wpc' = [wpc EXCEPT ![w] = "save"]
          /\ wbuf' = [wbuf EXCEPT ![w] = JobBuffer(tiles, wjob[w])]
          /\ meshCount' = [meshCount EXCEPT ![wjob[w].index] = @ + 1]
          /\ UNCHANGED <<lockHolder, poisoned>>
  /\ UNCHANGED <<nonSchedVars, tiles, mainpc, thread_count, spawned, joinIdx, queue,
                 wjob, files, popCount, saveCount>>

\* build_terrain_mesh panics on its decimation asserts (elevation.rs lines 69-70)
MeshPanic(w) ==
  /\ wpc[w] = "mesh"
  /\ PanicWorker(w)
  /\ UNCHANGED <<nonSchedVars, tiles, mainpc, thread_count, spawned, joinIdx, queue,
                 wjob, wbuf, files, popCount, meshCount, saveCount>>

\* the name of the output file of a job: format!("tile{}", index)
FileKey(job) == job.index

\* buffer.save(&name, &format!("tile{}", index)) (line 119), then the loop starts over
Save(w) ==
  /\ wpc[w] = "save"
  /\ files' = [files EXCEPT ![FileKey(wjob[w])] = wbuf[w]]
  /\ saveCount' = [saveCount EXCEPT ![FileKey(wjob[w])] = @ + 1]
  /\ wpc' = [wpc EXCEPT ![w] = "lock"]
  /\ wjob' = [wjob EXCEPT ![w] = NoJob]
  /\ wbuf' = [wbuf EXCEPT ![w] = <<>>]
  /\ UNCHANGED <<nonSchedVars, tiles, mainpc, thread_count, spawned, joinIdx, queue, lockHolder, poisoned,
                 popCount, meshCount>>

\* Buffer::save panics on an I/O error (main.rs lines 456-459) before the file is written
SavePanic(w) ==
  /\ wpc[w] = "save"
  /\ PanicWorker(w)
  /\ UNCHANGED <<nonSchedVars, tiles, mainpc, thread_count, spawned, joinIdx, queue,
                 wjob, wbuf, files, popCount, meshCount, saveCount>>

\* a join that does not wait for the thread
JoinableAnyTime(st) == st # "panicked"

\* thread.join() returns Ok once the thread has run to the end of its closure
Joinable(st) == st = "exited"

\* thread.join().unwrap() of a worker that ran to the end of its loop (lines 126-128)
JoinOk ==
  /\ mainpc = "join"
  /\ Joinable(wpc[joinIdx])
  /\ IF joinIdx = thread_count
     THEN mainpc' = "returned" /\ UNCHANGED joinIdx
     ELSE joinIdx' = joinIdx + 1 /\ UNCHANGED mainpc
  /\ UNCHANGED <<nonSchedVars, tiles, thread_count, spawned, queue, lockHolder, poisoned,
                 wpc, wjob, wbuf, files, popCount, meshCount, saveCount>>

\* what the end of the main thread does to a worker: a running thread dies with the process
AfterMainPanic(st) == IF st \in {"lock", "pop", "mesh", "save"} THEN "killed" ELSE st

\* thread.join().unwrap() of a worker that panicked: the caller panics, and the
\* process ends with it
JoinErr ==
  /\ mainpc = "join"
  /\ wpc[joinIdx] = "panicked"
  /\ mainpc' = "panicked"
  /\ wpc' = [w \in Workers |-> AfterMainPanic(wpc[w])]
  /\ UNCHANGED <<nonSchedVars, tiles, thread_count, spawned, joinIdx, queue, lockHolder, poisoned,
                 wjob, wbuf, files, popCount, meshCount, saveCount>>

\* no call of build_terrain_mesh is being followed
MeshIdle ==
  /\ mpc = "idle"
  /\ mjob = NoJob
  /\ mgrid = <<>>
  /\ mverts = {}
  /\ mnormal = <<0, 0, 0>>
  /\ mvcount = 0
  /\ mfcount = 0
  /\ mbuf = <<>>

\* get_elevation has not been called
ElevIdle == qx = 0 /\ qy = 0 /\ qres = <<>>

\* read_osm has read nothing
NoWay == [ids |-> <<>>, tags |-> <<>>]
OsmIdle == onodes = <<>> /\ obuf = <<>> /\ oway = NoWay /\ oways = 0 /\ obytes = <<>>
\* no request has made a cache
CacheIdle == cache = <<>> /\ chist = <<>>

SchedInit ==
  /\ mainpc = "start"
  /\ thread_count \in Workers
  /\ spawned = 0
  /\ joinIdx = 1
  /\ queue = <<>>
  /\ lockHolder = None
  /\ poisoned = FALSE
  /\ wpc = [w \in Workers |-> "unspawned"]
  /\ wjob = [w \in Workers |-> NoJob]
  /\ wbuf = [w \in Workers |-> <<>>]
  /\ files = [i \in TileIds |-> <<>>]
  /\ popCount = [i \in TileIds |-> 0]
  /\ meshCount = [i \in TileIds |-> 0]
  /\ saveCount = [i \in TileIds |-> 0]

Init ==
  /\ tiles = LoadTiles(RampRaster)
  /\ SchedInit
  /\ MeshIdle
  /\ ElevIdle
  /\ OsmIdle
  /\ CacheIdle

WorkerStep(w) == LockQueue(w) \/ PopFront(w) \/ Mesh(w) \/ Save(w)

WorkerFails(w) == MeshPanic(w) \/ SavePanic(w)

MainStep == Seed \/ SpawnWorker \/ JoinOk

Next ==
  \/ MainStep
  \/ JoinErr
  \/ \E w \in Workers : WorkerStep(w)
  \/ \E w \in Workers : WorkerFails(w)

\* the scheduler, worker failures included
Spec == Init /\ [][Next]_vars

NextNoFail ==
  \/ MainStep
  \/ \E w \in Workers : WorkerStep(w)

\* The scheduler when no tile fails, under fair scheduling: the caller and every
\* spawned OS thread keep being scheduled while they can take a step.
FairSpec ==
  /\ Init
  /\ [][NextNoFail]_vars
  /\ WF_vars(MainStep)
  /\ \A w \in Workers : WF_vars(WorkerStep(w))

\* ------------------------------------------- build_terrain_mesh, step by step
\* u16::MAX, the scale of the quantized positions
U16Max == 65535
\* the bound of the asserts on the decimated mesh
AssertLimit == 60000
\* the scale of the quantized normals
NormalScale == 127
\* normals are modelled in thousandths
NormalUnit == 1000

\* rasters of one elevation everywhere
FlatLevels == {0, 100}
FlatRaster(e) == [p \in (0 .. REGION_SIZE - 1) \X (0 .. REGION_SIZE - 1) |-> e]
Rasters == {RampRaster} \cup {FlatRaster(e) : e \in FlatLevels}

\* components of the vertex normals the decimated mesh reports, in thousandths
NormalFields == {<<0, 0, 1000>>, <<600, 0, 800>>, <<-707, 18, 707>>}

\* vertices of a decimated mesh beyond those the model follows one by one
ExtraCounts == {0, AssertLimit - 100, AssertLimit, U16Max - 100, U16Max + 1, U16Max + 1000}

\* the boundary vertices of a grid: keep_boundary(true) never collapses them
Boundary(grid) ==
  LET xs == {p[1] : p \in DOMAIN grid}
      ys == {p[2] : p \in DOMAIN grid}
      IsMax(S, v) == \A u \in S : u <= v
  IN {p \in DOMAIN grid : p[1] = 0 \/ p[2] = 0 \/ IsMax(xs, p[1]) \/ IsMax(ys, p[2])}

\* the faces make_grid triangulates: two per quad
GridFaces(grid) ==
  LET nx == Cardinality({p[1] : p \in DOMAIN grid})
      ny == Cardinality({p[2] : p \in DOMAIN grid})
  IN 2 * (nx - 1) * (ny - 1)

\* a cast that takes NaN to the largest value
U16OfNaNSaturated == U16Max

\* `v as u16` of a float that is NaN
U16OfNaN == 0

\* `v as u16` of a finite non-negative float num/den: truncated, saturating
U16OfRatio(num, den) == Min(U16Max, num \div den)

\* `(a / b * 65535.0) as u16` for a >= 0, b >= 0: 0/0 is NaN, a/0 is +Inf
QuantizeRatio(a, b) ==
  IF b = 0 THEN (IF a = 0 THEN U16OfNaN ELSE U16Max)
  ELSE U16OfRatio(a * U16Max, b)

\* `(c * 127.0) as i8 as u8` for a component of c thousandths: truncated toward zero,
\* then the two's complement byte
QuantizeNormal(c) ==
  LET t == IF c >= 0 THEN (c * NormalScale) \div NormalUnit
           ELSE 0 - (((0 - c) * NormalScale) \div NormalUnit)
  IN (t + 256) % 256

\* the six fields written for one vertex (lines 96-111)
EncodeVertex(pos, z, min_z, range_z, normal) ==
  <<QuantizeRatio(pos[1], ChunkSize), QuantizeRatio(pos[2], ChunkSize),
    QuantizeRatio(z - min_z, range_z),
    QuantizeNormal(normal[1]), QuantizeNormal(normal[2]), QuantizeNormal(normal[3])>>

\* min / max of the heights of a non-empty set of vertices (lines 76-83)
MinZ(grid, S) == CHOOSE z \in {grid[p] : p \in S} : \A p \in S : z <= grid[p]
MaxZ(grid, S) == CHOOSE z \in {grid[p] : p \in S} : \A p \in S : z >= grid[p]

\* write_short(count as u16): the low 16 bits
AsU16(n) == n % (U16Max + 1)

\* the asserts left out
WithinBudgetUnchecked(vcount, fcount) == TRUE

\* the asserts after the decimation (lines 69-70)
WithinBudget(vcount, fcount) == vcount < AssertLimit /\ fcount < AssertLimit

\* build_terrain_mesh is entered for a job and makes its grid (lines 31-62)
MeshStart ==
  /\ mpc = "idle"
  /\ \E i \in TileIds :
       /\ mjob' = Job(tiles, i)
       /\ IF GridPanics(tiles, Job(tiles, i))
          THEN mpc' = "panicked" /\ mgrid' = mgrid
          ELSE mpc' = "grid" /\ mgrid' = JobGrid(tiles, Job(tiles, i))
  /\ UNCHANGED <<tiles, schedVars, elevVars, osmVars, cacheVars, mverts, mnormal, mvcount, mfcount, mbuf>>

\* decimator.decimate (line 66): the boundary vertices and any of the inner vertices
\* survive; the mesh reports one of the normal fields
Decimate ==
  /\ mpc = "grid"
  /\ \E I \in SUBSET (DOMAIN mgrid \ Boundary(mgrid)) : \E nf \in NormalFields :
       /\ mverts' = Boundary(mgrid) \cup I
       /\ mnormal' = nf
       /\ mvcount' = Cardinality(Boundary(mgrid) \cup I)
       /\ mfcount' = IF I = DOMAIN mgrid \ Boundary(mgrid) THEN GridFaces(mgrid)
                     ELSE Max(0, Cardinality(Boundary(mgrid) \cup I) - 2)
  /\ mpc' = "decimated"
  /\ UNCHANGED <<tiles, schedVars, elevVars, osmVars, cacheVars, mjob, mgrid, mbuf>>

\* decimator.decimate (line 66) of a mesh of many vertices and faces: only the boundary
\* vertices are followed one by one, the others are counted
DecimateDense ==
  /\ mpc = "grid"
  /\ \E ev \in ExtraCounts, ef \in ExtraCounts :
       /\ mvcount' = Cardinality(Boundary(mgrid)) + ev
       /\ mfcount' = ef
  /\ mverts' = Boundary(mgrid)
  /\ mnormal' = <<0, 0, 1000>>
  /\ mpc' = "decimated"
  /\ UNCHANGED <<tiles, schedVars, elevVars, osmVars, cacheVars, mjob, mgrid, mbuf>>

\* the asserts, then the buffer is written (lines 69-125); the face list is left out
Encode ==
  /\ mpc = "decimated"
  /\ IF WithinBudget(mvcount, mfcount)
     THEN /\ mpc' = "encoded"
          /\ mbuf' = [min_z |-> MinZ(mgrid, mverts),
                      range_z |-> MaxZ(mgrid, mverts) - MinZ(mgrid, mverts),
                      vertex_count |-> AsU16(mvcount),
                      verts |-> [p \in mverts |->
                                   EncodeVertex(p, mgrid[p], MinZ(mgrid, mverts),
                                                MaxZ(mgrid, mverts) - MinZ(mgrid, mverts), mnormal)],
                      face_count |-> AsU16(mfcount)]
     ELSE mpc' = "aborted" /\ mbuf' = mbuf
  /\ UNCHANGED <<tiles, schedVars, elevVars, osmVars, cacheVars, mjob, mgrid, mverts, mnormal, mvcount, mfcount>>

MeshInit ==
  /\ tiles \in {LoadTiles(r) : r \in Rasters}
  /\ SchedInit
  /\ thread_count = 1
  /\ MeshIdle
  /\ ElevIdle
  /\ OsmIdle
  /\ CacheIdle

MeshNext == MeshStart \/ Decimate \/ DecimateDense \/ Encode

\* calls of build_terrain_mesh for the jobs of a region
MeshSpec == MeshInit /\ [][MeshNext]_vars

\* ------------------------------------------------------ Region::get_elevation
\* Coordinates are fixed-point numbers of Unit parts per sample: the clamp margin
\* 0.01 is one part.
Unit == 100

\* a clamp whose upper end is the region's size itself
ClampCoordNoMargin(v) == Max(1, Min(v, REGION_SIZE * Unit))

\* x.clamp(0.01, REGION_SIZE as f32 - 0.01)
ClampCoord(v) == Max(1, Min(v, REGION_SIZE * Unit - 1))

\* (v / chunk_size).floor() as i32
ChunkCoord(v) == v \div (ChunkSize * Unit)

\* (v % chunk_size) as u32: the remainder has the sign of v, the cast truncates and
\* takes a negative value to 0
LocalPixel(v) ==
  IF v >= 0 THEN (v % (ChunkSize * Unit)) \div Unit ELSE 0

\* get_elevation(x, y): what it computes and whether it panics (lines 142-161)
GetElevation(ts, x, y) ==
  LET cx0 == ClampCoord(x)
      cy0 == ClampCoord(y)
      cx == ChunkCoord(cx0)
      cy == ChunkCoord(cy0)
      bad == cx < 0 \/ cy < 0 \/ cx >= ChunkCount \/ cy >= ChunkCount
      chunk_index == cy * ChunkCount + cx
      xx == LocalPixel(cx0)
      yy == LocalPixel(cy0)
      idx == IF bad THEN 0 ELSE ts[chunk_index].width * yy + xx
      oob == bad \/ idx >= Len(ts[chunk_index].data)
  IN [x |-> cx0, y |-> cy0, chunk_index |-> chunk_index, xx |-> xx, yy |-> yy,
      panicked |-> oob,
      value |-> IF oob THEN Panic ELSE ts[chunk_index].data[idx + 1]]

\* the coordinates get_elevation is called with: around every chunk border, around
\* both ends of the region and far outside it
QueryCoords ==
  {k * ChunkSize * Unit + d : k \in 0 .. ChunkCount, d \in {0 - 1, 0, 1, Unit}}
    \cup {REGION_SIZE * Unit + d : d \in {0 - Unit, 0 - 1, 0, 1}}
    \cup {0 - 5 * Unit, (REGION_SIZE + 5) * Unit}

\* a call get_elevation(x, y)
Query ==
  /\ \E x \in QueryCoords, y \in QueryCoords :
       /\ qx' = x
       /\ qy' = y
       /\ qres' = GetElevation(tiles, x, y)
  /\ UNCHANGED <<tiles, schedVars, meshVars, osmVars, cacheVars>>

ElevInit ==
  /\ tiles = LoadTiles(RampRaster)
  /\ SchedInit
  /\ thread_count = 1
  /\ MeshIdle
  /\ ElevIdle
  /\ OsmIdle
  /\ CacheIdle

\* calls of get_elevation on a loaded region
ElevSpec == ElevInit /\ [][Query]_vars

\* -------------------------------------------------------------------- read_osm
OBJ_BUILDING == 0
KindHouse == 0
KindTower == 1
KindCommercial == 2
RoofFlat == 0
\* the height of a building without a usable tag, and the height of one level
DefaultHeight == 3
\* the thresholds of building_infer_kind and the floor of a commercial building's height
TowerHeight == 10
CommercialArea == 500
CommercialFloor == 6
\* the height of one of building:levels
LevelHeight == 3

\* the planar positions of the nodes, in samples from the region's origin
Coords == {0, 1}

\* the reverse of a sequence (Vec::reverse)
Reverse(s) == [i \in 1 .. Len(s) |-> s[Len(s) + 1 - i]]

\* the sum of f over 1 .. n
RECURSIVE SumTo(_, _)
SumTo(f, n) == IF n = 0 THEN 0 ELSE f[n] + SumTo(f, n - 1)

\* mean_pos: the sums of the coordinates of all nodes of the way, and their number
\* (the mean is sum / count; positions relative to it are kept as numerators over count)
MeanPos(ids, nodes) ==
  [sum_x |-> SumTo([i \in 1 .. Len(ids) |-> nodes[ids[i]][1]], Len(ids)),
   sum_y |-> SumTo([i \in 1 .. Len(ids) |-> nodes[ids[i]][2]], Len(ids)),
   count |-> Len(ids)]

\* is_ccw's sum: (x2 - x1) * (y2 + y1) over the edges of the closed path
ShoelaceSum(points) ==
  SumTo([i \in 1 .. Len(points) |->
           (points[(i % Len(points)) + 1][1] - points[i][1])
             * (points[(i % Len(points)) + 1][2] + points[i][2])],
        Len(points))

\* is_ccw (lines 211-219)
IsCcw(points) == ShoelaceSum(points) < 0

\* the footprint as written: if is_ccw(&path) { path.reverse() } (lines 257-259)
Footprint(path) == IF IsCcw(path) THEN Reverse(path) ELSE path

\* path_area: the area of the bounding box, 0 below three points (lines 104-123)
PathArea(path) ==
  LET xs == {path[i][1] : i \in 1 .. Len(path)}
      ys == {path[i][2] : i \in 1 .. Len(path)}
      Lo(S) == CHOOSE v \in S : \A u \in S : v <= u
      Hi(S) == CHOOSE v \in S : \A u \in S : v >= u
  IN IF Len(path) < 3 THEN 0 ELSE (Hi(xs) - Lo(xs)) * (Hi(ys) - Lo(ys))

\* the tags of a way: a function from the keys the way has to their values;
\* way.tag(k).is_some() is k \in DOMAIN tags
HasTag(tags, k) == k \in DOMAIN tags

\* str::parse::<f32>() of the tag values that occur: Ok(v) for a plain number, Err for
\* a number with a unit or in words
ParseTable == [s \in {"4", "3", "0"} |-> CASE s = "4" -> 4 [] s = "3" -> 3 [] s = "0" -> 0]
ParseOk(s) == s \in DOMAIN ParseTable

\* building_height with the levels branch taken only when the way has no height tag
BuildingHeightNoFallThrough(tags) ==
  IF HasTag(tags, "height")
    THEN IF ParseOk(tags["height"]) THEN ParseTable[tags["height"]] ELSE DefaultHeight
  ELSE IF HasTag(tags, "building:levels") /\ ParseOk(tags["building:levels"])
    THEN ParseTable[tags["building:levels"]] * LevelHeight
  ELSE DefaultHeight

\* building_height (lines 77-92)
BuildingHeight(tags) ==
  IF HasTag(tags, "height") /\ ParseOk(tags["height"])
    THEN ParseTable[tags["height"]]
  ELSE IF HasTag(tags, "building:levels") /\ ParseOk(tags["building:levels"])
    THEN ParseTable[tags["building:levels"]] * LevelHeight
  ELSE DefaultHeight

\* building_infer_kind (lines 94-102); the area is in units of 1 / den^2
BuildingKind(area, den, height) ==
  IF height > TowerHeight THEN KindTower
  ELSE IF area > CommercialArea * den * den THEN KindCommercial
  ELSE KindHouse

\* the building record read_osm writes for a way of node ids `ids` (lines 237-286)
BuildingRecord(ts, ids, tags, nodes) ==
  LET base == MeanPos(ids, nodes)
      path_len == Len(ids) - 1
      elev == {GetElevation(ts, nodes[ids[i]][1] * Unit, nodes[ids[i]][2] * Unit).value : i \in 1 .. path_len}
      path == [i \in 1 .. path_len |->
                 <<base.count * nodes[ids[i]][1] - base.sum_x,
                   base.count * nodes[ids[i]][2] - base.sum_y>>]
      height == BuildingHeight(tags)
      kind == BuildingKind(PathArea(Footprint(path)), base.count, height)
  IN [tag |-> OBJ_BUILDING,
      base |-> base,
      ground_bot |-> CHOOSE e \in elev : \A f \in elev : e <= f,
      ground_top |-> CHOOSE e \in elev : \A f \in elev : e >= f,
      height |-> IF kind = KindCommercial THEN Max(height, CommercialFloor) ELSE height,
      kind |-> kind,
      roof_kind |-> RoofFlat,
      point_count |-> Len(Footprint(path)),
      points |-> Footprint(path)]

\* Buffer::write_byte (line 462): one byte
WriteByte(x) == <<[w |-> 1, v |-> x]>>

\* Buffer::write_short (lines 466-470): the two bytes of x, low byte first
WriteShortBigEndian(x) == <<[w |-> 1, v |-> x \div 256], [w |-> 1, v |-> x % 256]>>
WriteShort(x) == <<[w |-> 1, v |-> x % 256], [w |-> 1, v |-> x \div 256]>>

\* Buffer::write_float (lines 472-478): the four bytes of one f32, kept together
WriteFloat(x) == <<[w |-> 4, v |-> x]>>

\* the concatenation of a sequence of byte strings
RECURSIVE Concat(_)
Concat(ss) == IF ss = <<>> THEN <<>> ELSE Head(ss) \o Concat(Tail(ss))

\* the bytes read_osm writes for a building (lines 273-285)
BuildingBytes(rec) ==
  WriteByte(rec.tag) \o WriteFloat(<<rec.base.sum_x, rec.base.count>>)
    \o WriteFloat(<<rec.base.sum_y, rec.base.count>>)
    \o WriteFloat(rec.ground_bot) \o WriteFloat(rec.ground_top) \o WriteFloat(rec.height)
    \o WriteByte(rec.kind) \o WriteByte(rec.roof_kind)
    \o WriteShort(Len(rec.points))
    \o Concat([i \in 1 .. Len(rec.points) |->
                 WriteFloat(rec.points[i][1]) \o WriteFloat(rec.points[i][2])])

\* the closed ways over the nodes read so far: a ring of at least three different
\* nodes, closed by its first node
ClosedWays(n) ==
  {Append(r, r[1]) :
     r \in {s \in UNION {[1 .. m -> 1 .. n] : m \in 3 .. n} :
              \A i, j \in DOMAIN s : s[i] = s[j] => i = j}}

\* the reader yields a node: nodes.insert(node.id(), (x, y)) (lines 229-235)
ReadNode ==
  /\ Len(onodes) < MaxNodes
  /\ \E x \in Coords, y \in Coords : onodes' = Append(onodes, <<x, y>>)
  /\ UNCHANGED <<tiles, schedVars, meshVars, elevVars, cacheVars, obuf, oway, oways, obytes>>

\* the building branch for the way (ids, tags) (lines 237-286)
EmitBuilding(ids, tags) ==
  /\ obuf' = Append(obuf, BuildingRecord(tiles, ids, tags, onodes))
  /\ obytes' = obytes \o BuildingBytes(BuildingRecord(tiles, ids, tags, onodes))
  /\ oway' = [ids |-> ids, tags |-> tags]
  /\ oways' = oways + 1

\* a building without further tags
PlainBuilding == [building |-> "yes"]

\* the reader yields a way tagged building and nothing else (lines 236-286)
ReadBuilding ==
  /\ Len(obuf) < MaxWays
  /\ \E ids \in ClosedWays(Len(onodes)) : EmitBuilding(ids, PlainBuilding)
  /\ UNCHANGED <<tiles, schedVars, meshVars, elevVars, cacheVars, onodes>>

OsmNext == ReadNode \/ ReadBuilding

\* read_osm over the nodes and building ways of a file
OsmSpec == ElevInit /\ [][OsmNext]_vars

\* ------------------------------------------------- read_osm: tagged ways, roads
OBJ_ROAD == 1
\* the road-type bytes: a path, a two-way road, a one-way road (lines 306, 310)
RoadTypePath == 0
RoadTypeTwoWay == 1
RoadTypeOneWay == 2
\* the lane byte of a path (line 311), road_lanes without a usable tag (line 164) and
\* its least value (lines 157-161)
PathLanes == 1
DefaultLanes == 2
MinLanes == 1
\* the f32 values of one node entry: left, right, normal, direction (lines 426-437)
NodeFloats == 12

\* road_lanes (lines 153-165)
RoadLanes(tags) ==
  IF HasTag(tags, "lanes") /\ ParseOk(tags["lanes"])
    THEN Max(ParseTable[tags["lanes"]], MinLanes)
    ELSE DefaultLanes

\* should_skip_road (lines 167-169)
ShouldSkipRoad(tags) ==
  \/ HasTag(tags, "tunnel")
  \/ HasTag(tags, "bridge")
  \/ (HasTag(tags, "highway") /\ tags["highway"] = "steps")

\* road_kind is FootPath or BikePath (lines 186-196, 178-183)
IsLevelPath(tags) ==
  \/ (HasTag(tags, "highway") /\ tags["highway"] \in {"footway", "path", "cycleway"})
  \/ HasTag(tags, "footway")

\* the road record read_osm writes for the way (ids, tags) (lines 291-317); the way's
\* node ids stand for the geometry of its node entries
RoadRecord(ts, ids, tags, nodes) ==
  LET base == MeanPos(ids, nodes)
  IN [tag |-> OBJ_ROAD,
      base |-> base,
      base_elevation |-> GetElevation(ts, (base.sum_x * Unit) \div base.count,
                                          (base.sum_y * Unit) \div base.count).value,
      road_type |-> IF IsLevelPath(tags) THEN RoadTypePath
                    ELSE IF HasTag(tags, "oneway") THEN RoadTypeOneWay ELSE RoadTypeTwoWay,
      lanes |-> IF IsLevelPath(tags) THEN PathLanes ELSE RoadLanes(tags),
      node_count |-> Len(ids),
      nodes |-> ids]

\* the bytes read_osm writes for a road (lines 300-317, 425-438): the header, then for
\* every node of base_path its twelve floats (float c of entry i is named <<i, c>>)
RoadBytes(rec) ==
  WriteByte(rec.tag) \o WriteFloat(<<rec.base.sum_x, rec.base.count>>)
    \o WriteFloat(<<rec.base.sum_y, rec.base.count>>)
    \o WriteFloat(rec.base_elevation)
    \o WriteByte(rec.road_type) \o WriteByte(rec.lanes)
    \o WriteShort(rec.node_count)
    \o Concat([i \in 1 .. Len(rec.nodes) |->
                 Concat([c \in 1 .. NodeFloats |-> WriteFloat(<<i, c>>)])])

\* the road branch for a way that is not skipped (lines 291-438)
EmitRoad(ids, tags) ==
  /\ obuf' = Append(obuf, RoadRecord(tiles, ids, tags, onodes))
  /\ obytes' = obytes \o RoadBytes(RoadRecord(tiles, ids, tags, onodes))
  /\ oway' = [ids |-> ids, tags |-> tags]
  /\ oways' = oways + 1

\* `continue`, or a way that is neither a building nor a road: nothing is written
SkipWay(ids, tags) ==
  /\ oway' = [ids |-> ids, tags |-> tags]
  /\ oways' = oways + 1
  /\ UNCHANGED <<obuf, obytes>>

\* the way branch of the reader loop (lines 236-440)
ProcessWay(ids, tags) ==
  IF HasTag(tags, "building") THEN EmitBuilding(ids, tags)
  ELSE IF HasTag(tags, "highway")
    THEN IF ShouldSkipRoad(tags) THEN SkipWay(ids, tags) ELSE EmitRoad(ids, tags)
  ELSE SkipWay(ids, tags)

\* the nodes of a survey, s apart: a footprint over them is a house's for s = 1 and
\* wider than CommercialArea for s = 30
Spacings == {1, 30}
Layout(s) == [i \in 1 .. MaxNodes |-> <<s * ((i - 1) % 2), s * (((i - 1) \div 2) % 2)>>]

\* the tags of the building ways: height and building:levels absent, a number, or
\* not a number
HeightTags == {<<>>, [height |-> "4"], [height |-> "4 m"]}
LevelTags == {<<>>, "building:levels" :> "4", "building:levels" :> "four"}
BuildingTagSets == {(PlainBuilding @@ h) @@ l : h \in HeightTags, l \in LevelTags}

\* the tags of the roads that are written, and of the ways that are skipped
RoadTagSets ==
  {[highway |-> "residential"],
   [highway |-> "residential", oneway |-> "yes", lanes |-> "3"],
   [highway |-> "residential", lanes |-> "0"],
   [highway |-> "footway"],
   [highway |-> "cycleway"]}
SkippedTagSets ==
  {[highway |-> "steps"],
   [highway |-> "residential", tunnel |-> "yes"],
   [highway |-> "residential", bridge |-> "yes"],
   [landuse |-> "grass"]}

\* the building ways of the survey: the rings that start at the first node
BuildingWays == {r \in ClosedWays(MaxNodes) : r[1] = 1}

\* the other ways of the survey: two or more nodes in a row, in either direction
OpenWays ==
  {w \in UNION {{[i \in 1 .. m |-> a + i - 1], [i \in 1 .. m |-> a + m - i]} :
                  a \in 1 .. MaxNodes, m \in 2 .. MaxNodes} :
     \A i \in DOMAIN w : w[i] \in 1 .. MaxNodes}

\* the reader yields a building way with height tags
ReadTaggedBuilding ==
  /\ oways < MaxWays
  /\ \E ids \in BuildingWays, tags \in BuildingTagSets : ProcessWay(ids, tags)
  /\ UNCHANGED <<tiles, schedVars, meshVars, elevVars, cacheVars, onodes>>

\* the reader yields a road
ReadRoad ==
  /\ oways < MaxWays
  /\ \E ids \in OpenWays, tags \in RoadTagSets : ProcessWay(ids, tags)
  /\ UNCHANGED <<tiles, schedVars, meshVars, elevVars, cacheVars, onodes>>

\* the reader yields a way that is skipped
ReadSkipped ==
  /\ oways < MaxWays
  /\ \E ids \in OpenWays, tags \in SkippedTagSets : ProcessWay(ids, tags)
  /\ UNCHANGED <<tiles, schedVars, meshVars, elevVars, cacheVars, onodes>>

\* the nodes of the file have been read
FeatureInit ==
  /\ tiles = LoadTiles(RampRaster)
  /\ SchedInit
  /\ thread_count = 1
  /\ MeshIdle
  /\ ElevIdle
  /\ CacheIdle
  /\ onodes \in {Layout(s) : s \in Spacings}
  /\ obuf = <<>> /\ oway = NoWay /\ oways = 0 /\ obytes = <<>>

FeatureNext == ReadTaggedBuilding \/ ReadRoad \/ ReadSkipped

\* read_osm over the ways of a file whose nodes have been read
FeatureSpec == FeatureInit /\ [][FeatureNext]_vars

\* ----------------------------------------------- Elevation Cache (server mode)
\* The cache is described by the specification only: a bounded LRU of decoded raster
\* chunks, one instance per request.  `cache` lists the chunk indices it holds, the
\* least recently used first.

\* the chunk indices a request asks for: two more than the cache holds
CacheKeys == 0 .. Min(NumTiles - 1, CacheCapacity + 1)

\* a sequence without its entries equal to i
RECURSIVE Without(_, _)
Without(s, i) ==
  IF s = <<>> THEN <<>>
  ELSE IF Head(s) = i THEN Without(Tail(s), i)
  ELSE <<Head(s)>> \o Without(Tail(s), i)

\* a cache whose hits leave the entry where it is
CacheGetNoTouch(c, i) ==
  IF \E k \in DOMAIN c : c[k] = i THEN c
  ELSE IF Len(c) >= CacheCapacity THEN Append(Tail(c), i)
  ELSE Append(c, i)

\* the cache after it was asked for chunk i: a hit moves the entry to the back; a miss
\* decodes the chunk and puts it at the back, evicting the front entry on overflow
CacheGet(c, i) ==
  IF \E k \in DOMAIN c : c[k] = i THEN Append(Without(c, i), i)
  ELSE IF Len(c) >= CacheCapacity THEN Append(Tail(c), i)
  ELSE Append(c, i)

\* the request samples a point of chunk i through its cache
CacheQuery ==
  /\ Len(chist) < MaxQueries
  /\ \E i \in CacheKeys :
       /\ cache' = CacheGet(cache, i)
       /\ chist' = Append(chist, i)
  /\ UNCHANGED <<tiles, schedVars, meshVars, elevVars, osmVars>>

\* a request starts with an empty cache
CacheInit ==
  /\ tiles = LoadTiles(RampRaster)
  /\ SchedInit
  /\ thread_count = 1
  /\ MeshIdle
  /\ ElevIdle
  /\ OsmIdle
  /\ CacheIdle

\* the queries of one request
CacheSpec == CacheInit /\ [][CacheQuery]_vars

\* ------------------------------------------------------------------ claims

\* the job of tile i is held by worker w
Holds(w, i) == wpc[w] \in {"mesh", "save", "panicked", "killed"} /\ wjob[w].index = i

\* C1: no job is popped, meshed or saved more than once and no two workers hold the
\* same job; when process_elevation returns, every tile's job has been popped once,
\* meshed once and saved once, and file i holds the buffer of tile i's own job,
\* whatever the number of workers and the schedule.
C1_EachJobExactlyOnce ==
  /\ \A i \in TileIds : popCount[i] <= 1 /\ meshCount[i] <= popCount[i] /\ saveCount[i] <= meshCount[i]
  /\ \A v, w \in Workers : \A i \in TileIds : (Holds(v, i) /\ Holds(w, i)) => v = w
  /\ \A i \in TileIds : saveCount[i] = 1 => files[i] = JobBuffer(tiles, Job(tiles, i))
  /\ mainpc = "returned" =>
       \A i \in TileIds : /\ popCount[i] = 1 /\ meshCount[i] = 1 /\ saveCount[i] = 1
                           /\ files[i] = JobBuffer(tiles, Job(tiles, i))

\* process_elevation has returned from a run with the largest number of workers
C1_Witness == mainpc = "returned" /\ thread_count = MaxWorkers /\ \A i \in TileIds : saveCount[i] = 1

\* C2: under fair scheduling and without a worker failure process_elevation returns,
\* and when it has returned the queue is empty and every worker has left its loop.
C2_Terminates ==
  /\ <>(mainpc = "returned")
  /\ [](mainpc = "returned" =>
          /\ queue = <<>>
          /\ lockHolder = None
          /\ \A w \in Workers : wpc[w] = (IF w <= thread_count THEN "exited" ELSE "unspawned"))

\* the caller has joined several workers and returned
C2_Witness == mainpc = "returned" /\ joinIdx > 1 /\ queue = <<>>

\* C3 (as claimed): a failure in one worker neither poisons the queue lock nor stops
\* another worker before that worker has left its loop.
C3_FailureIsolated == ~poisoned /\ \A w \in Workers : wpc[w] # "killed"

\* what C4 says of one job
NeighborsAsClaimed(job) ==
  LET i == job.index
      n == job.neighbors
      col == i % ChunkCount
      row == i \div ChunkCount
      RightOf(j) == j \in TileIds /\ j \div ChunkCount = row /\ j % ChunkCount = col + 1
      Below(j) == j \in TileIds /\ j \div ChunkCount = row + 1 /\ j % ChunkCount = col
      Diagonal(j) == j \in TileIds /\ j \div ChunkCount = row + 1 /\ j % ChunkCount = col + 1
  IN /\ (n.next_x # None) <=> (tiles[i].width = ChunkSize)
     /\ (n.next_y # None) <=> (tiles[i].height = ChunkSize)
     /\ (n.corner # None) <=> (tiles[i].width = ChunkSize /\ tiles[i].height = ChunkSize)
     /\ n.next_x # None => (n.next_x = i + 1 /\ RightOf(n.next_x))
     /\ n.next_y # None => (n.next_y = i + ChunkCount /\ Below(n.next_y))
     /\ n.corner # None => (n.corner = i + ChunkCount + 1 /\ Diagonal(n.corner))

\* C4: building the queue never indexes outside the tile vector, and every job has
\* next_x iff its tile is a full chunk wide, next_y iff it is a full chunk high,
\* corner iff both, each present neighbor being the tile right of, below, or
\* diagonally below-right of the job's tile in the grid.
C4_NeighborsOfGrid ==
  /\ mainpc = "panicked" => \E w \in Workers : wpc[w] = "panicked"
  /\ mainpc # "start" => Len(queue) + Cardinality({i \in TileIds : popCount[i] > 0}) = NumTiles
  /\ \A k \in 1 .. Len(queue) : NeighborsAsClaimed(queue[k])
  /\ \A w \in Workers : wjob[w] # NoJob => NeighborsAsClaimed(wjob[w])

\* the queue holds all jobs: an inner tile with its three neighbors, a tile of the
\* last column and a tile of the last row
C4_Witness ==
  /\ Len(queue) = NumTiles
  /\ queue[1].neighbors = [next_x |-> 1, next_y |-> ChunkCount, corner |-> ChunkCount + 1]
  /\ queue[ChunkCount].neighbors = [next_x |-> None, next_y |-> 2 * ChunkCount - 1, corner |-> None]
  /\ queue[NumTiles - 1].neighbors = [next_x |-> NumTiles - 1, next_y |-> None, corner |-> None]

\* C5: the grid build_terrain_mesh makes for a job is the effective grid (a dimension
\* is one sample longer iff it is a full chunk), no absent neighbor is unwrapped, and
\* the height of (x, y) is the tile's own sample inside the tile, the right neighbor's
\* sample (0, y) in the extension column, the below neighbor's sample (x, 0) in the
\* extension row and the corner neighbor's sample (0, 0) where both meet.
C5_GridHeights ==
  /\ mpc # "panicked"
  /\ mpc # "idle" =>
       LET i == mjob.index
           w == tiles[i].width
           h == tiles[i].height
           fw == IF w = ChunkSize THEN w + 1 ELSE w
           fh == IF h = ChunkSize THEN h + 1 ELSE h
           Sample(t, x, y) == tiles[t].data[y * tiles[t].width + x + 1]
       IN /\ DOMAIN mgrid = (0 .. fw - 1) \X (0 .. fh - 1)
          /\ \A x \in 0 .. fw - 1 : \A y \in 0 .. fh - 1 :
               mgrid[<<x, y>>] =
                 IF x < w /\ y < h THEN Sample(i, x, y)
                 ELSE IF y < h THEN Sample(i + 1, 0, y)
                 ELSE IF x < w THEN Sample(i + ChunkCount, x, 0)
                 ELSE Sample(i + ChunkCount + 1, 0, 0)

\* the grid of a full tile whose right neighbor is a full tile too, of different samples
C5_Witness ==
  /\ mpc = "grid"
  /\ tiles[mjob.index].width = ChunkSize /\ tiles[mjob.index].height = ChunkSize
  /\ tiles[mjob.index + 1].width = ChunkSize
  /\ mgrid[<<ChunkSize, 1>>] = tiles[mjob.index + 1].data[ChunkSize + 1]
  /\ mgrid[<<ChunkSize, 1>>] # mgrid[<<ChunkSize, 0>>]

\* C6: a buffer is encoded only when the decimated mesh has fewer than 65536 vertices
\* and fewer than 65536 faces, a mesh of 65536 or more of either aborts the call with
\* nothing encoded, and the u16 count fields of a buffer are the true counts.
C6_IndexBudget ==
  /\ mpc = "encoded" =>
       /\ mvcount < U16Max + 1 /\ mfcount < U16Max + 1
       /\ mbuf.vertex_count = mvcount /\ mbuf.face_count = mfcount
  /\ (mpc \in {"encoded", "aborted"} /\ (mvcount >= U16Max + 1 \/ mfcount >= U16Max + 1)) =>
       (mpc = "aborted" /\ mbuf = <<>>)

\* a mesh of 65536 faces or more has aborted the call
C6_Witness == mpc = "aborted" /\ mfcount >= U16Max + 1 /\ mvcount < AssertLimit /\ mbuf = <<>>

\* round-to-nearest of num/den, halves away from zero (f64::round), for num, den > 0
RoundRatio(num, den) == (2 * num + den) \div (2 * den)

\* C8 (as claimed): every vertex is encoded with positions rounded to the nearest
\* integer of x/512*65535, y/512*65535, (z-min_z)/range_z*65535 and normal bytes
\* rounded to the nearest integer of component*127.
C8_RoundedQuantization ==
  (mpc = "encoded" /\ mbuf.range_z > 0) =>
    \A p \in mverts :
      /\ mbuf.verts[p][1] = RoundRatio(p[1] * U16Max, ChunkSize)
      /\ mbuf.verts[p][2] = RoundRatio(p[2] * U16Max, ChunkSize)
      /\ mbuf.verts[p][3] = RoundRatio((mgrid[p] - mbuf.min_z) * U16Max, mbuf.range_z)
      /\ \A k \in 1 .. 3 :
           mbuf.verts[p][3 + k] =
             IF mnormal[k] >= 0 THEN RoundRatio(mnormal[k] * NormalScale, NormalUnit)
             ELSE 256 - RoundRatio((0 - mnormal[k]) * NormalScale, NormalUnit)

\* C9: the buffer of a tile whose grid has one elevation e everywhere has min_z = e,
\* range_z = 0 and z = 0 in every encoded vertex.
C9_FlatTile ==
  (mpc = "encoded" /\ \A p, q \in DOMAIN mgrid : mgrid[p] = mgrid[q]) =>
    /\ mbuf.min_z = mgrid[<<0, 0>>]
    /\ mbuf.range_z = 0
    /\ \A p \in mverts : mbuf.verts[p][3] = 0

\* the encoded buffer of a flat full tile at elevation 100, stitched to its neighbors
C9_Witness ==
  /\ mpc = "encoded"
  /\ \A p \in DOMAIN mgrid : mgrid[p] = 100
  /\ <<ChunkSize, ChunkSize>> \in mverts
  /\ mbuf.min_z = 100 /\ mbuf.range_z = 0

\* floor(a / b) for b > 0
FloorDiv(a, b) == a \div b

\* C7: get_elevation clamps x and y into [0.01, SIZE - 0.01] and returns the sample of
\* chunk floor(y/512)*20 + floor(x/512) at local pixel (floor(x mod 512),
\* floor(y mod 512)); the chunk index is in range, the pixel lies inside the chunk's
\* own width and height, nothing panics and the tiles are left as they were loaded.
C7_SampleOfClampedPoint ==
  /\ tiles = LoadTiles(RampRaster)
  /\ qres # <<>> =>
       LET lo == 1
           hi == REGION_SIZE * Unit - 1
           cx == IF qx < lo THEN lo ELSE IF qx > hi THEN hi ELSE qx
           cy == IF qy < lo THEN lo ELSE IF qy > hi THEN hi ELSE qy
           span == ChunkSize * Unit
           chunk == FloorDiv(cy, span) * ChunkCount + FloorDiv(cx, span)
           px == FloorDiv(cx - FloorDiv(cx, span) * span, Unit)
           py == FloorDiv(cy - FloorDiv(cy, span) * span, Unit)
       IN /\ ~qres.panicked
          /\ qres.x = cx /\ qres.y = cy
          /\ qres.chunk_index = chunk /\ chunk \in TileIds
          /\ qres.xx = px /\ qres.yy = py
          /\ px < tiles[chunk].width /\ py < tiles[chunk].height
          /\ qres.value = tiles[chunk].data[py * tiles[chunk].width + px + 1]
          /\ qres.value = FloorDiv(cy, Unit) * REGION_SIZE + FloorDiv(cx, Unit)

\* a point right of and below the region is answered from the last pixel of the
\* narrower and lower chunk in the grid's last corner
C7_Witness ==
  /\ qres # <<>>
  /\ qx > REGION_SIZE * Unit /\ qy > REGION_SIZE * Unit
  /\ qres.chunk_index = NumTiles - 1
  /\ qres.xx = EdgeSize - 1 /\ qres.yy = EdgeSize - 1

\* C10 (as claimed): every footprint of non-zero signed area in the buffer is
\* counter-clockwise by the shoelace-sum sign test.
C10_FootprintsCcw ==
  \A k \in 1 .. Len(obuf) :
    ShoelaceSum(obuf[k].points) # 0 => ShoelaceSum(obuf[k].points) < 0

\* the height of a building by its tags, as claimed: the height tag if it parses,
\* else three times building:levels if that parses, else 3
ClaimedHeight(tags) ==
  LET Number(k) == IF k \in DOMAIN tags /\ tags[k] \in {"0", "3", "4"}
                     THEN (CHOOSE n \in 0 .. 4 : ToString(n) = tags[k]) ELSE None
  IN IF Number("height") # None THEN Number("height")
     ELSE IF Number("building:levels") # None THEN 3 * Number("building:levels")
     ELSE 3

RECURSIVE ParseRecords(_)
ParseRecords(s) ==
  LET Floats(a, b) == \A k \in a .. b : s[k].w = 4
      Bytes(a, b) == \A k \in a .. b : s[k].w = 1
      U16(k) == s[k].v + 256 * s[k + 1].v
      Bad == [ok |-> FALSE, recs |-> <<>>]
      Then(tag, n, last) ==
        IF Len(s) >= last
          THEN LET r == ParseRecords(SubSeq(s, last + 1, Len(s)))
               IN [ok |-> r.ok, recs |-> <<[tag |-> tag, count |-> n]>> \o r.recs]
          ELSE Bad
      Building ==
        IF Len(s) >= 10 /\ Floats(2, 6) /\ Bytes(7, 10)
          THEN IF Len(s) >= 10 + 2 * U16(9) /\ Floats(11, 10 + 2 * U16(9))
                 THEN Then(0, U16(9), 10 + 2 * U16(9)) ELSE Bad
          ELSE Bad
      Road ==
        IF Len(s) >= 8 /\ Floats(2, 4) /\ Bytes(5, 8)
          THEN IF Len(s) >= 8 + 12 * U16(7) /\ Floats(9, 8 + 12 * U16(7))
                 THEN Then(1, U16(7), 8 + 12 * U16(7)) ELSE Bad
          ELSE Bad
  IN IF s = <<>> THEN [ok |-> TRUE, recs |-> <<>>]
     ELSE IF s[1].w # 1 THEN Bad
     ELSE IF s[1].v = 0 THEN Building
     ELSE IF s[1].v = 1 THEN Road
     ELSE Bad

LastTouch(i) == CHOOSE k \in DOMAIN chist : chist[k] = i /\ \A j \in DOMAIN chist : chist[j] = i => j <= k

\* the chunks touched after the last touch of chunk i
TouchedSince(i) == {chist[j] : j \in {k \in DOMAIN chist : k > LastTouch(i)}}

\* C13: the cache never holds more than its capacity; it holds exactly the chunks
\* with fewer than capacity other chunks touched since their own last touch (so that
\* an overflow has evicted the least recently touched chunk and no other), in the
\* order of their last touch (so that a hit makes its entry the last to be evicted).
C13_LeastRecentlyUsed ==
  /\ Len(cache) <= CacheCapacity
  /\ \A a, b \in DOMAIN cache : cache[a] = cache[b] => a = b
  /\ {cache[k] : k \in DOMAIN cache}
       = {i \in {chist[k] : k \in DOMAIN chist} : Cardinality(TouchedSince(i)) < CacheCapacity}
  /\ \A a, b \in DOMAIN cache : a < b => LastTouch(cache[a]) < LastTouch(cache[b])

\* a full cache was hit on its oldest entry and then asked for a new chunk: the entry
\* that was hit is kept and the one after it is evicted
C13_Witness ==
  /\ Len(chist) = CacheCapacity + 2
  /\ \A a, b \in 1 .. CacheCapacity : chist[a] = chist[b] => a = b
  /\ chist[CacheCapacity + 1] = chist[1]
  /\ \A a \in 1 .. CacheCapacity : chist[CacheCapacity + 2] # chist[a]
  /\ \E k \in DOMAIN cache : cache[k] = chist[1]
  /\ \A k \in DOMAIN cache : cache[k] # chist[2]
  /\ Len(cache) = CacheCapacity

\* the lock is held by the one worker that is popping, and by no worker that is
\* meshing or saving (after the process has ended no worker runs)
LockDiscipline ==
  /\ Cardinality({w \in Workers : wpc[w] = "pop"}) <= 1
  /\ \A w \in Workers : wpc[w] = "pop" => lockHolder = w
  /\ \A w \in Workers : wpc[w] \in {"mesh", "save"} => lockHolder # w
  /\ (lockHolder # None /\ mainpc # "panicked") => wpc[lockHolder] = "pop"

\* C14: in every state of the scheduler at most one worker holds the queue lock, and
\* only while it pops the front job, never while it meshes or saves; the queue is
\* changed only by the caller that builds it and by the worker popping under the lock;
\* a step changes the job and buffer of one worker only, that worker's own; file i is
\* written only by the worker holding job i; the tiles never change.
C14_LockOnlyWhilePopping ==
  [][/\ LockDiscipline'
     /\ tiles' = tiles
     /\ queue' # queue =>
          \/ mainpc = "start"
          \/ \E w \in Workers : lockHolder = w /\ wpc[w] = "pop" /\ queue' = Tail(queue)
     /\ \A w \in Workers :
          (wjob'[w] # wjob[w] \/ wbuf'[w] # wbuf[w]) =>
             /\ wpc[w] \in {"pop", "mesh", "save"}
             /\ \A v \in Workers \ {w} : wjob'[v] = wjob[v] /\ wbuf'[v] = wbuf[v]
     /\ \A i \in TileIds :
          files'[i] # files[i] => \E w \in Workers : wpc[w] = "save" /\ wjob[w].index = i]_vars

\* one worker is meshing its tile while another holds the lock to pop the next job
C14_Witness ==
  \E w, v \in Workers :
    /\ w # v
    /\ wpc[w] = "mesh"
    /\ lockHolder = v
    /\ wpc[v] = "pop"
    /\ queue # <<>>

====
